---------------------------- MODULE Spec2Model ----------------------------
(***************************************************************************)
(* SqliteContractCache (src/src/SqliteContractCache.ts, the class of lines *)
(* 287-587): a cache of (key, sort_key, value) rows kept in one SQLite     *)
(* table, sort_key_cache.                                                  *)
(*                                                                         *)
(* Sort keys are strings that SQLite compares bytewise; the model writes   *)
(* them as the integers 0..MaxSortKey, in the same order, with             *)
(* EmptySortKey standing for the empty string "", the least string.        *)
(* A value is a JavaScript object, written as the sequence of its          *)
(* <<field, scalar>> pairs in insertion order.  The text JSON.stringify    *)
(* makes of it is a sequence of tokens.                                    *)
(***************************************************************************)
EXTENDS Integers, Sequences, FiniteSets, TLC

\* ------------------------------------------------------------------ bounds

\* Sort keys are 0..MaxSortKey.
MaxSortKey == 2

\* maxEntriesPerContract is drawn from 1..MaxCap.
MaxCap == 2

\* prune is called with no argument or with one of -1..MaxStored.
MaxStored == 2

\* --------------------------------------------------------- program constants

\* The sort key "" (getLastSortKey compares its result with it).
EmptySortKey == 0

\* prune(entriesStored = 5)
DefaultEntriesStored == 5

\* maxEntriesPerContract when the constructor is given no sqliteCacheOptions.
DefaultMaxEntries == 10

\* ------------------------------------------------------------------ inputs

Keys == {"k1", "k2"}

SortKeys == 0..MaxSortKey

\* {a: 1, b: 2} and {a: 2}
VA == << <<"a", "1">>, <<"b", "2">> >>
VC == << <<"a", "2">> >>
Values == {VA, VC}

\* setSignature is called on these sort keys.
SignedSortKeys == {1}

Hashes == {"h1"}
Signatures == {"sg1"}

\* SQL NULL in a text column.
NULL == "NULL"

\* JavaScript null, and the result of a call that returns nothing.
Null == <<>>

\* ------------------------------------------------------------------- state

VARIABLES
  maxEntriesPerContract, \* sqliteCacheOptions.maxEntriesPerContract
  columns,               \* the columns of table sort_key_cache in the database
  db,                    \* this._db: "none" (unset), "open", "closed"
  rows,                  \* the rows of sort_key_cache
  last,                  \* the call that returned last, with what it returned
                         \* (status "counted": a prune that has not yet)
  onlyPuts,              \* history: the puts so far, while nothing else ran
  tx,                    \* the open transaction: <<rows at BEGIN>>, or Null
  pruning                \* a prune between its two statements:
                         \* <<argument, allItems>>, or Null

vars ==
  <<maxEntriesPerContract, columns, db, rows, last, onlyPuts, tx, pruning>>

\* ------------------------------------------------------------- the schema

\* The table sortKeyTable creates when the database has none.
SortKeyTableColumns ==
  {"id", "key", "sort_key", "value", "state_hash", "signature"}

\* The columns put's INSERT names.
PutColumns == {"key", "sort_key", "value", "state_hash", "validity_hash"}

\* The columns setSignature's UPDATE names.
SetSignatureColumns == {"key", "sort_key", "state_hash", "signature"}

\* CREATE TABLE IF NOT EXISTS leaves a table the database file already
\* holds as it is: the table is the one sortKeyTable creates, or an existing
\* one that has every column the statements of the class name.
Layouts == {SortKeyTableColumns, SortKeyTableColumns \cup PutColumns}

\* ---------------------------------------------------------------- the codec

RECURSIVE JoinFields(_)
JoinFields(v) ==
  IF Len(v) = 0 THEN <<>>
  ELSE IF Len(v) = 1 THEN <<v[1][1], ":", v[1][2]>>
  ELSE <<v[1][1], ":", v[1][2], ",">> \o JoinFields(Tail(v))

\* JSON.stringify(value): the fields in insertion order.
JSONstringify(v) == <<"{">> \o JoinFields(v) \o <<"}">>

\* JSON.parse(text) of a text JSONstringify made.
JSONparse(t) ==
  [i \in 1..((Len(t) - 1) \div 4) |-> <<t[4 * i - 2], t[4 * i]>>]

\* Two objects are structurally equal when they have the same fields with
\* the same values, in whatever order.
StructEq(v, w) ==
  /\ Len(v) = Len(w)
  /\ {v[i] : i \in 1..Len(v)} = {w[i] : i \in 1..Len(w)}

\* ------------------------------------------------------------------- SQL

Row(k, s, text, h, sg) ==
  [key |-> k, sort_key |-> s, value |-> text, state_hash |-> h, signature |-> sg]

\* WHERE key = ?
WhereKey(rs, k) == {r \in rs : r.key = k}

\* ORDER BY sort_key DESC
RECURSIVE OrderBySortKeyDesc(_)
OrderBySortKeyDesc(rs) ==
  IF rs = {} THEN <<>>
  ELSE LET m == CHOOSE r \in rs : \A q \in rs : q.sort_key <= r.sort_key
       IN <<m>> \o OrderBySortKeyDesc(rs \ {m})

\* row_number() over a ranked sequence: 1..Len.
RowNumbers(sq) == 1..Len(sq)

\* removeOldestEntries with the rank test rw > max.
removeOldestEntriesGt(rs, k, max) ==
  LET sorted_cache == OrderBySortKeyDesc(WhereKey(rs, k))
  IN rs \ {sorted_cache[rw] : rw \in {j \in RowNumbers(sorted_cache) : j > max}}

\* removeOldestEntries ranking by sort_key ascending (ORDER BY sort_key ASC):
\* rank rw of the descending order is rank Len + 1 - rw.
removeOldestEntriesAsc(rs, k, max) ==
  LET sorted_cache == OrderBySortKeyDesc(WhereKey(rs, k))
      n == Len(sorted_cache)
  IN rs \ {sorted_cache[n + 1 - rw] :
             rw \in {j \in RowNumbers(sorted_cache) : j >= max}}

\* removeOldestEntries(key): DELETE the rows of key with rw >= max.
removeOldestEntries(rs, k, max) ==
  LET sorted_cache == OrderBySortKeyDesc(WhereKey(rs, k))
  IN rs \ {sorted_cache[rw] : rw \in {j \in RowNumbers(sorted_cache) : j >= max}}

\* INSERT OR IGNORE: a conflicting row is kept and the new one dropped.
InsertOrIgnore(rs, r) ==
  IF \E q \in rs : q.key = r.key /\ q.sort_key = r.sort_key
  THEN rs ELSE rs \cup {r}

\* INSERT into a table without the UNIQUE constraint.
InsertPlain(rs, r) == rs \cup {r}

\* An upsert that sets the value of a conflicting row and keeps the rest
\* of it (ON CONFLICT DO UPDATE SET value).
InsertOrUpdateValue(rs, r) ==
  IF \E q \in rs : q.key = r.key /\ q.sort_key = r.sort_key
  THEN {IF q.key = r.key /\ q.sort_key = r.sort_key
        THEN [q EXCEPT !.value = r.value] ELSE q : q \in rs}
  ELSE rs \cup {r}

\* INSERT OR REPLACE: a row that conflicts on UNIQUE (key, sort_key) is
\* deleted before the new row is inserted.
InsertOrReplace(rs, r) ==
  {q \in rs : ~(q.key = r.key /\ q.sort_key = r.sort_key)} \cup {r}

\* ----------------------------------------------------------------- handle

\* A handle on which statements still run after close().
UsableAlways == TRUE

\* The db getter: the handle is created on first access; a closed handle
\* is still set, and every statement on it throws.
Usable == db # "closed"
Opened == IF db = "none" THEN "open" ELSE db

\* What is observed of a call: its name and arguments, whether it returned
\* ("ok") or threw ("error"), what it returned, and (history) what it met.
Call(op, args, status, res, prior) ==
  [op |-> op, args |-> args, status |-> status, res |-> res, prior |-> prior]

\* History: something else than puts of new sort keys to one key has run.
NoPuts == [pure |-> FALSE, key |-> "", sortKeys |-> {}]

\* ------------------------------------------------------------------- Init

Init ==
  /\ maxEntriesPerContract \in 1..MaxCap
  /\ columns \in Layouts
  /\ db = "none"
  /\ rows = {}
  /\ last = Call("new", <<>>, "ok", Null, "-")
  /\ onlyPuts = [pure |-> TRUE, key |-> "", sortKeys |-> {}]
  /\ tx = Null
  /\ pruning = Null

\* ---------------------------------------------------------------- actions

\* What the row (k, s) held before a put: "absent", "signed" (a signature,
\* set by setSignature), "same" text, "changed".
Prior(rs, k, s, text) ==
  IF \A r \in rs : ~(r.key = k /\ r.sort_key = s) THEN "absent"
  ELSE IF \E r \in rs : r.key = k /\ r.sort_key = s /\ r.signature # NULL
       THEN "signed"
  ELSE IF \E r \in rs : r.key = k /\ r.sort_key = s /\ r.value = text
       THEN "same" ELSE "changed"

put(k, s, v) ==
  LET evicted == removeOldestEntries(rows, k, maxEntriesPerContract)
      strVal == JSONstringify(v)
      prior == Prior(rows, k, s, strVal)
      compiles == PutColumns \subseteq columns
      ok == Usable /\ compiles
  IN /\ db' = Opened
     /\ rows' = IF ~Usable THEN rows
                ELSE IF ~compiles THEN evicted
                ELSE InsertOrReplace(evicted, Row(k, s, strVal, "", NULL))
     /\ last' = Call("put", <<k, s, v>>, IF ok THEN "ok" ELSE "error", Null, prior)
     /\ onlyPuts' =
          IF ok /\ onlyPuts.pure /\ onlyPuts.key \in {"", k}
                /\ s \notin onlyPuts.sortKeys
          THEN [pure |-> TRUE, key |-> k, sortKeys |-> onlyPuts.sortKeys \cup {s}]
          ELSE NoPuts
     /\ UNCHANGED <<maxEntriesPerContract, columns, tx, pruning>>

\* DELETE FROM sort_key_cache, with no WHERE.
DeleteEveryRow(rs, k) == {}

\* DELETE FROM sort_key_cache WHERE key = ?
DeleteWhereKey(rs, k) == rs \ WhereKey(rs, k)

delete(k) ==
  /\ db' = Opened
  /\ rows' = IF Usable THEN DeleteWhereKey(rows, k) ELSE rows
  /\ last' = Call("delete", <<k>>, IF Usable THEN "ok" ELSE "error", Null,
                  IF Usable /\ WhereKey(rows, k) # {} THEN "removed" ELSE "-")
  /\ onlyPuts' = NoPuts
  /\ UNCHANGED <<maxEntriesPerContract, columns, tx, pruning>>

\* SELECT value ... WHERE key = ? AND sort_key = ?, .pluck().get(): the
\* value of the first row found; `if (result)` takes a non-empty text.
getResult(rs, k, s) ==
  LET found == {r \in rs : r.key = k /\ r.sort_key = s}
  IN IF found = {} THEN Null
     ELSE LET result == (CHOOSE r \in found : TRUE).value
          IN IF Len(result) > 0 THEN <<s, JSONparse(result)>> ELSE Null

\* ... ORDER BY sort_key DESC LIMIT 1, .get(): the first row or none;
\* `result && result.value` takes a row whose value is a non-empty text.
FirstResult(sq) ==
  IF Len(sq) = 0 THEN Null
  ELSE LET result == sq[1]
       IN IF Len(result.value) > 0
          THEN <<result.sort_key, JSONparse(result.value)>> ELSE Null

getLastResult(rs, k) == FirstResult(OrderBySortKeyDesc(WhereKey(rs, k)))

getLessOrEqualResult(rs, k, s) ==
  FirstResult(OrderBySortKeyDesc({r \in WhereKey(rs, k) : r.sort_key <= s}))

\* getLess with the comparison of getLessOrEqual.
getLessResultLte(rs, k, s) ==
  FirstResult(OrderBySortKeyDesc({r \in WhereKey(rs, k) : r.sort_key <= s}))

getLessResult(rs, k, s) ==
  FirstResult(OrderBySortKeyDesc({r \in WhereKey(rs, k) : r.sort_key < s}))

\* SELECT max(sort_key): <<>> (NULL) over no rows.
MaxSortKeyOf(rs) ==
  IF rs = {} THEN <<>>
  ELSE <<CHOOSE s \in {r.sort_key : r \in rs} : \A r \in rs : r.sort_key <= s>>

\* return lastSortKey == "" ? null : lastSortKey
getLastSortKeyResult(rs) ==
  LET lastSortKey == MaxSortKeyOf(rs)
  IN IF lastSortKey = <<EmptySortKey>> THEN Null ELSE lastSortKey

\* A read: the handle is created on first access, nothing else changes.
Read(op, args, res) ==
  /\ db' = Opened
  /\ last' = IF Usable THEN Call(op, args, "ok", res, "-")
             ELSE Call(op, args, "error", Null, "-")
  /\ UNCHANGED <<maxEntriesPerContract, columns, rows, onlyPuts, tx, pruning>>

get(k, s) == Read("get", <<k, s>>, getResult(rows, k, s))

getLast(k) == Read("getLast", <<k>>, getLastResult(rows, k))

getLessOrEqual(k, s) ==
  Read("getLessOrEqual", <<k, s>>, getLessOrEqualResult(rows, k, s))

getLess(k, s) == Read("getLess", <<k, s>>, getLessResult(rows, k, s))

getLastSortKey == Read("getLastSortKey", <<>>, getLastSortKeyResult(rows))

\* prune's clamp with only the test !entriesStored.
EntriesStoredNoClamp(arg) ==
  LET entriesStored == IF arg = <<>> THEN DefaultEntriesStored ELSE arg[1]
  IN IF entriesStored = 0 THEN 1 ELSE entriesStored

\* prune(entriesStored = 5): no argument is <<>>, prune(n) is <<n>>;
\* if (!entriesStored || entriesStored <= 0) entriesStored = 1.
EntriesStored(arg) ==
  LET entriesStored == IF arg = <<>> THEN DefaultEntriesStored ELSE arg[1]
  IN IF entriesStored = 0 \/ entriesStored <= 0 THEN 1 ELSE entriesStored

\* A DELETE for one key only: the rows of the least key beyond rank
\* entriesStored.
PruneDeletedOneKey(rs, entriesStored) ==
  IF rs = {} THEN {}
  ELSE LET k == CHOOSE c \in {r.key : r \in rs} :
                  \A d \in {r.key : r \in rs} : c = "k1" \/ d # "k1"
           sorted_cache == OrderBySortKeyDesc(WhereKey(rs, k))
       IN {sorted_cache[rw] :
             rw \in {j \in RowNumbers(sorted_cache) : j > entriesStored}}

\* prune's DELETE with the rank test rw >= entriesStored.
PruneDeletedGte(rs, entriesStored) ==
  UNION {LET sorted_cache == OrderBySortKeyDesc(WhereKey(rs, k))
         IN {sorted_cache[rw] :
               rw \in {j \in RowNumbers(sorted_cache) : j >= entriesStored}} :
           k \in {r.key : r \in rs}}

\* The algorithm of prune's comment (take the entriesStored newest sort
\* keys, clear what is below the last of them) with lte for lt.
PruneDeletedLte(rs, entriesStored) ==
  UNION {LET entries == OrderBySortKeyDesc(WhereKey(rs, k))
             n == IF Len(entries) < entriesStored
                  THEN Len(entries) ELSE entriesStored
         IN {r \in WhereKey(rs, k) : r.sort_key <= entries[n].sort_key} :
           k \in {r.key : r \in rs}}

\* The rows prune's DELETE removes: in every partition by key, ranked by
\* sort_key descending, those with rw > entriesStored.
PruneDeleted(rs, entriesStored) ==
  UNION {LET sorted_cache == OrderBySortKeyDesc(WhereKey(rs, k))
         IN {sorted_cache[rw] :
               rw \in {j \in RowNumbers(sorted_cache) : j > entriesStored}} :
           k \in {r.key : r \in rs}}

\* {entriesBefore, entriesAfter, sizeBefore, sizeAfter}
PruneStats(allItems, changes) == <<allItems, allItems - changes, -1, -1>>

prune(arg) ==
  LET entriesStored == EntriesStored(arg)
      allItems == Cardinality(rows)
      deleted == PruneDeleted(rows, entriesStored)
      again == last.op = "prune" /\ last.status = "ok" /\ last.args = arg
      prior == IF ~again THEN "first"
               ELSE IF last.res[1] > last.res[2] THEN "afterRemoval"
               ELSE "again"
  IN /\ db' = Opened
     /\ rows' = IF Usable THEN rows \ deleted ELSE rows
     /\ last' = IF Usable
                THEN Call("prune", arg, "ok",
                          PruneStats(allItems, Cardinality(deleted)),
                          prior)
                ELSE Call("prune", arg, "error", Null, "-")
     /\ onlyPuts' = NoPuts
     /\ UNCHANGED <<maxEntriesPerContract, columns, tx, pruning>>

\* prune, statement by statement.  The body has no await and the
\* statements are synchronous, so no other call of the instance runs
\* between them; the two steps are there for the specification that lets
\* reads run between them all the same.
\* The first statement: SELECT count(*) FROM sort_key_cache.
pruneCount(arg) ==
  /\ pruning = Null
  /\ db' = Opened
  /\ pruning' = IF Usable THEN <<arg, Cardinality(rows)>> ELSE Null
  /\ last' = IF Usable THEN Call("prune", arg, "counted", Null, "-")
             ELSE Call("prune", arg, "error", Null, "-")
  /\ onlyPuts' = NoPuts
  /\ UNCHANGED <<maxEntriesPerContract, columns, rows, tx>>

\* The second statement, the ranked DELETE, and the return.
pruneDelete ==
  /\ pruning # Null
  /\ LET arg == pruning[1]
         allItems == pruning[2]
         deleted == PruneDeleted(rows, EntriesStored(arg))
     IN /\ db' = Opened
        /\ rows' = IF Usable THEN rows \ deleted ELSE rows
        /\ last' = IF Usable
                   THEN Call("prune", arg, "ok",
                             PruneStats(allItems, Cardinality(deleted)),
                             IF last.status = "counted" THEN "-"
                             ELSE "afterRead")
                   ELSE Call("prune", arg, "error", Null, "-")
  /\ pruning' = Null
  /\ onlyPuts' = NoPuts
  /\ UNCHANGED <<maxEntriesPerContract, columns, tx>>

\* setSignature's UPDATE with WHERE key = ? only.
UpdateSignatureWhereKey(rs, k, s, h, sg) ==
  {IF r.key = k
   THEN [r EXCEPT !.state_hash = h, !.signature = sg] ELSE r : r \in rs}

\* UPDATE ... SET state_hash, signature WHERE key = ? AND sort_key = ?
UpdateSignature(rs, k, s, h, sg) ==
  {IF r.key = k /\ r.sort_key = s
   THEN [r EXCEPT !.state_hash = h, !.signature = sg] ELSE r : r \in rs}

setSignature(k, s, h, sg) ==
  LET ok == Usable /\ SetSignatureColumns \subseteq columns
  IN /\ db' = Opened
     /\ rows' = IF ok THEN UpdateSignature(rows, k, s, h, sg) ELSE rows
     /\ last' = Call("setSignature", <<k, s, h, sg>>,
                     IF ok THEN "ok" ELSE "error", Null, "-")
     /\ onlyPuts' = NoPuts
     /\ UNCHANGED <<maxEntriesPerContract, columns, tx, pruning>>

\* open() does nothing.
open ==
  /\ last' = Call("open", <<>>, "ok", Null, "-")
  /\ UNCHANGED <<maxEntriesPerContract, columns, db, rows, onlyPuts, tx,
               pruning>>

\* A close() that unsets the field.
closeAndUnset ==
  /\ db' = "none"
  /\ rows' = IF tx = Null THEN rows ELSE tx[1]
  /\ tx' = Null
  /\ last' = Call("close", <<>>, "ok", Null,
                  IF db = "open" THEN "released"
                  ELSE IF db = "closed" THEN "again" ELSE "-")
  /\ onlyPuts' = NoPuts
  /\ UNCHANGED <<maxEntriesPerContract, columns, pruning>>

\* close(): if (this._db) this._db.close(); the field stays set, and a
\* second close of the handle does nothing.  Closing a connection rolls
\* its open transaction back.
close ==
  /\ db' = IF db = "none" THEN "none" ELSE "closed"
  /\ rows' = IF tx = Null THEN rows ELSE tx[1]
  /\ tx' = Null
  /\ last' = Call("close", <<>>, "ok", Null,
                  IF db = "open" THEN "released"
                  ELSE IF db = "closed" THEN "again" ELSE "-")
  /\ onlyPuts' = NoPuts
  /\ UNCHANGED <<maxEntriesPerContract, columns, pruning>>

\* prepare("ROLLBACK;") with no run: the statement is never executed.
RollbackPrepared(rs, journal) == rs

\* exec("ROLLBACK;"): the rows are again those the transaction began with.
Rollback(rs, journal) == journal[1]

\* exec("BEGIN;") throws within a transaction and leaves it open.
begin ==
  LET ok == Usable /\ tx = Null
  IN /\ db' = Opened
     /\ tx' = IF ok THEN <<rows>> ELSE tx
     /\ last' = Call("begin", <<>>, IF ok THEN "ok" ELSE "error", Null, "-")
     /\ onlyPuts' = NoPuts
     /\ UNCHANGED <<maxEntriesPerContract, columns, rows, pruning>>

\* exec("ROLLBACK;") throws when no transaction is open.
rollback ==
  LET ok == Usable /\ tx # Null
  IN /\ db' = Opened
     /\ rows' = IF ok THEN Rollback(rows, tx) ELSE rows
     /\ tx' = IF ok THEN Null ELSE tx
     /\ last' = Call("rollback", <<>>, IF ok THEN "ok" ELSE "error", Null,
                     IF ok /\ rows # tx[1] THEN "undone" ELSE "-")
     /\ onlyPuts' = NoPuts
     /\ UNCHANGED <<maxEntriesPerContract, columns, pruning>>

\* exec("COMMIT;") throws when no transaction is open.
commit ==
  LET ok == Usable /\ tx # Null
  IN /\ db' = Opened
     /\ tx' = IF ok THEN Null ELSE tx
     /\ last' = Call("commit", <<>>, IF ok THEN "ok" ELSE "error", Null,
                     IF ok /\ rows # tx[1] THEN "kept" ELSE "-")
     /\ onlyPuts' = NoPuts
     /\ UNCHANGED <<maxEntriesPerContract, columns, rows, pruning>>

PruneArgs == {<<>>} \cup {<<n>> : n \in -1..MaxStored}

\* The calls that change the store, from an empty store.
Next ==
  \/ \E k \in Keys, s \in SortKeys, v \in Values : put(k, s, v)
  \/ \E k \in Keys : delete(k)
  \/ \E arg \in PruneArgs : prune(arg)
  \/ \E k \in Keys, s \in SignedSortKeys, h \in Hashes, sg \in Signatures :
       setSignature(k, s, h, sg)
  \/ open

Spec == Init /\ [][Next]_vars

\* ------------------------------------------------------------ transactions

\* The writes to one key, with begin, commit and rollback around them, on a
\* table that has every column the statements name.
TxKeys == {"k1"}

InitTx ==
  /\ maxEntriesPerContract \in 1..MaxCap
  /\ columns = SortKeyTableColumns \cup PutColumns
  /\ db = "none"
  /\ rows = {}
  /\ last = Call("new", <<>>, "ok", Null, "-")
  /\ onlyPuts = NoPuts
  /\ tx = Null
  /\ pruning = Null

NextTx ==
  \/ \E k \in TxKeys, s \in SortKeys, v \in Values : put(k, s, v)
  \/ \E k \in TxKeys : delete(k)
  \/ \E n \in 1..MaxStored : prune(<<n>>)
  \/ \E k \in TxKeys, s \in SignedSortKeys, h \in Hashes, sg \in Signatures :
       setSignature(k, s, h, sg)
  \/ begin
  \/ commit
  \/ rollback

SpecTx == InitTx /\ [][NextTx]_vars

\* ------------------------------------------------- the reads, on any store

\* With no sqliteCacheOptions the constructor sets maxEntriesPerContract
\* to 10; a put to a key of fewer than 10 rows evicts nothing, so every
\* store of fewer than 10 rows a key is one that puts to an empty store make.
StoreOf(f) ==
  {Row(c[1], c[2], JSONstringify(f[c]), "", NULL) :
     c \in {d \in DOMAIN f : f[d] # Null}}

Stores == {StoreOf(f) : f \in [Keys \X SortKeys -> Values \cup {Null}]}

InitRead ==
  /\ maxEntriesPerContract = DefaultMaxEntries
  /\ columns = SortKeyTableColumns \cup PutColumns
  /\ db = "none"
  /\ rows \in Stores
  /\ last = Call("new", <<>>, "ok", Null, "-")
  /\ onlyPuts = NoPuts
  /\ tx = Null
  /\ pruning = Null

NextRead ==
  \/ \E k \in Keys, s \in SortKeys : get(k, s)
  \/ \E k \in Keys : getLast(k)
  \/ \E k \in Keys, s \in SortKeys : getLessOrEqual(k, s)
  \/ \E k \in Keys, s \in SortKeys : getLess(k, s)
  \/ getLastSortKey

SpecRead == InitRead /\ [][NextRead]_vars

\* ------------------------------------------------- prune, on any store

\* Stores of up to DefaultEntriesStored + 2 rows of one key, so that a
\* prune that keeps DefaultEntriesStored rows has rows to remove.  The
\* instance that prunes is given any maxEntriesPerContract: the database
\* file may have been written under another.
PruneSortKeys == 0..(DefaultEntriesStored + 1)

PruneStores ==
  {StoreOf([c \in Keys \X PruneSortKeys |->
              IF (c[1] = "k1" /\ c[2] \in A) \/ (c[1] = "k2" /\ c[2] \in B)
              THEN VA ELSE Null]) :
     A \in SUBSET PruneSortKeys, B \in SUBSET SortKeys}

InitPrune ==
  /\ maxEntriesPerContract \in {1, DefaultMaxEntries}
  /\ columns = SortKeyTableColumns \cup PutColumns
  /\ db = "none"
  /\ rows \in PruneStores
  /\ last = Call("new", <<>>, "ok", Null, "-")
  /\ onlyPuts = NoPuts
  /\ tx = Null
  /\ pruning = Null

NextPrune ==
  \E arg \in {<<>>} \cup {<<n>> : n \in -1..(DefaultEntriesStored + 1)} :
    prune(arg)

SpecPrune == InitPrune /\ [][NextPrune]_vars

\* --------------------------------------------------------------- lifecycle

\* Every call of the class, on a store of one key.
LifeStores ==
  {StoreOf([c \in TxKeys \X SortKeys |-> IF c[2] \in A THEN VA ELSE Null]) :
     A \in SUBSET SortKeys}

InitLife ==
  /\ maxEntriesPerContract = DefaultMaxEntries
  /\ columns = SortKeyTableColumns \cup PutColumns
  /\ db = "none"
  /\ rows \in LifeStores
  /\ last = Call("new", <<>>, "ok", Null, "-")
  /\ onlyPuts = NoPuts
  /\ tx = Null
  /\ pruning = Null

NextLife ==
  \/ \E k \in TxKeys, s \in SortKeys : get(k, s)
  \/ \E k \in TxKeys : getLast(k)
  \/ \E k \in TxKeys, s \in SortKeys : getLessOrEqual(k, s)
  \/ \E k \in TxKeys, s \in SortKeys : getLess(k, s)
  \/ getLastSortKey
  \/ \E k \in TxKeys, s \in SortKeys : put(k, s, VA)
  \/ \E k \in TxKeys : delete(k)
  \/ \E n \in 1..MaxStored : prune(<<n>>)
  \/ \E k \in TxKeys, s \in SignedSortKeys, h \in Hashes, sg \in Signatures :
       setSignature(k, s, h, sg)
  \/ begin
  \/ commit
  \/ rollback
  \/ open
  \/ close

SpecLife == InitLife /\ [][NextLife]_vars

\* ------------------------------------------------------------ construction

\* new SqliteContractCache(cacheOptions, sqliteCacheOptions).  A field of
\* cacheOptions that is not given is "undefined"; sqliteCacheOptions is
\* Null when it is not given and <<maxEntriesPerContract>> otherwise.
CacheOptions ==
  [dbLocation : {"undefined", "", "cache/db"},
   inMemory : {"undefined", "false", "true"}]

SqliteCacheOptions == {Null} \cup {<<n>> : n \in 1..MaxCap}

\* !this.cacheOptions.dbLocation
NoDbLocation(cacheOptions) == cacheOptions.dbLocation \in {"undefined", ""}

\* The database the getter will open: with inMemory a new one, whose table
\* sortKeyTable creates; otherwise the file at dbLocation, with the table it
\* holds.
LayoutsOf(cacheOptions) ==
  IF cacheOptions.inMemory = "true" THEN {SortKeyTableColumns} ELSE Layouts

constructor(cacheOptions, sqliteCacheOptions) ==
  /\ last.op = "-"
  /\ IF NoDbLocation(cacheOptions)
     THEN /\ last' = Call("constructor", <<cacheOptions, sqliteCacheOptions>>,
                          "error", Null, "-")
          /\ UNCHANGED <<maxEntriesPerContract, columns>>
     ELSE /\ last' = Call("constructor", <<cacheOptions, sqliteCacheOptions>>,
                          "ok", Null, "-")
          /\ maxEntriesPerContract' =
               IF sqliteCacheOptions = Null THEN DefaultMaxEntries
               ELSE sqliteCacheOptions[1]
          /\ columns' \in LayoutsOf(cacheOptions)
  /\ UNCHANGED <<db, rows, onlyPuts, tx, pruning>>

\* There is an instance: the constructor has returned.
Constructed ==
  last.op # "-" /\ ~(last.op = "constructor" /\ last.status = "error")

\* Before the constructor runs there is no instance: its fields get their
\* values from the constructor.
InitNew ==
  /\ maxEntriesPerContract = DefaultMaxEntries
  /\ columns = SortKeyTableColumns
  /\ db = "none"
  /\ rows = {}
  /\ last = Call("-", <<>>, "ok", Null, "-")
  /\ onlyPuts = NoPuts
  /\ tx = Null
  /\ pruning = Null

NextNew ==
  \/ \E cacheOptions \in CacheOptions, sqliteCacheOptions \in SqliteCacheOptions :
       constructor(cacheOptions, sqliteCacheOptions)
  \/ Constructed /\ \E k \in TxKeys, s \in SortKeys, v \in Values : put(k, s, v)
  \/ Constructed /\ \E k \in TxKeys : delete(k)
  \/ Constructed /\ \E k \in TxKeys : getLast(k)

SpecNew == InitNew /\ [][NextNew]_vars

\* ---------------------------------------------------------------- the codec

\* {b: 2, a: 1}: the fields of VA, inserted in the other order.
VB == << <<"b", "2">>, <<"a", "1">> >>

CodecValues == {VA, VB, VC}

InitCodec ==
  /\ maxEntriesPerContract = DefaultMaxEntries
  /\ columns = SortKeyTableColumns \cup PutColumns
  /\ db = "none"
  /\ rows = {}
  /\ last = Call("new", <<>>, "ok", Null, "-")
  /\ onlyPuts = NoPuts
  /\ tx = Null
  /\ pruning = Null

NextCodec ==
  \/ \E k \in TxKeys, s \in SortKeys, v \in CodecValues : put(k, s, v)
  \/ \E k \in TxKeys, s \in SortKeys : get(k, s)

SpecCodec == InitCodec /\ [][NextCodec]_vars

\* ------------------------------------------------- prune among the reads

\* Stores of two keys, and reads that run at any moment, between the two
\* statements of a prune too: more than the instance can do.
ReadStores ==
  {StoreOf([c \in Keys \X SortKeys |-> IF c \in A THEN VA ELSE Null]) :
     A \in SUBSET (Keys \X SortKeys)}

InitPruneRead ==
  /\ maxEntriesPerContract = DefaultMaxEntries
  /\ columns = SortKeyTableColumns \cup PutColumns
  /\ db = "none"
  /\ rows \in ReadStores
  /\ last = Call("new", <<>>, "ok", Null, "-")
  /\ onlyPuts = NoPuts
  /\ tx = Null
  /\ pruning = Null

NextPruneRead ==
  \/ \E n \in 0..MaxStored : pruneCount(<<n>>)
  \/ pruneDelete
  \/ \E k \in Keys : getLast(k)
  \/ \E k \in Keys, s \in SortKeys : getLess(k, s)
  \/ getLastSortKey

SpecPruneRead == InitPruneRead /\ [][NextPruneRead]_vars

\* ------------------------------------------------- writes with no delete

\* put (of one value), prune and setSignature from an empty store, under a
\* maxEntriesPerContract of 2 or more, on a table that has every column the
\* statements name.
InitNoDelete ==
  /\ maxEntriesPerContract \in 2..MaxCap
  /\ columns = SortKeyTableColumns \cup PutColumns
  /\ db = "none"
  /\ rows = {}
  /\ last = Call("new", <<>>, "ok", Null, "-")
  /\ onlyPuts = [pure |-> TRUE, key |-> "", sortKeys |-> {}]
  /\ tx = Null
  /\ pruning = Null

NextNoDelete ==
  \/ \E k \in Keys, s \in SortKeys : put(k, s, VA)
  \/ \E arg \in PruneArgs : prune(arg)
  \/ \E k \in Keys, s \in SignedSortKeys, h \in Hashes, sg \in Signatures :
       setSignature(k, s, h, sg)

SpecNoDelete == InitNoDelete /\ [][NextNoDelete]_vars

\* ------------------------------------------------------------------ claims

LastPut == last.op = "put" /\ last.status = "ok"

SortKeysOf(rs, k) == {r.sort_key : r \in WhereKey(rs, k)}

\* The n largest members of a set of sort keys.
Newest(S, n) == {s \in S : Cardinality({u \in S : u > s}) < n}

\* C1: from an empty store, after any sequence of put, delete, prune and
\* setSignature calls, every key holds at most maxEntriesPerContract
\* entries.
C1_PerKeyCap ==
  \A k \in Keys : Cardinality(WhereKey(rows, k)) <= maxEntriesPerContract

\* More sort keys were put to a key than the cap, and the key is at the cap.
C1_Witness ==
  /\ onlyPuts.pure
  /\ Cardinality(onlyPuts.sortKeys) > maxEntriesPerContract
  /\ Cardinality(WhereKey(rows, onlyPuts.key)) = maxEntriesPerContract
  /\ maxEntriesPerContract > 1

\* C2: when put(K, s, v) has returned, the entry (K, s) is present and
\* get(K, s) returns a result with sort key s and a value structurally
\* equal to v.
C2_PutThenGet ==
  LastPut =>
    LET k == last.args[1]
        s == last.args[2]
        v == last.args[3]
        res == getResult(rows, k, s)
    IN /\ \E r \in rows : r.key = k /\ r.sort_key = s
       /\ res # Null
       /\ res[1] = s
       /\ StructEq(res[2], v)

\* A put of a sort key older than all the others of its key, which holds as
\* many entries as the cap allows, over an entry of another value.
C2_Witness ==
  /\ LastPut
  /\ last.prior = "changed"
  /\ maxEntriesPerContract > 1
  /\ Cardinality(WhereKey(rows, last.args[1])) = maxEntriesPerContract
  /\ \A u \in SortKeysOf(rows, last.args[1]) : u >= last.args[2]

\* C3: after M > maxEntriesPerContract puts of pairwise distinct sort keys
\* to one key of an empty store, in any order, the key holds exactly the
\* maxEntriesPerContract largest of the sort keys written.
C3_NewestRetained ==
  (onlyPuts.pure /\ Cardinality(onlyPuts.sortKeys) > maxEntriesPerContract)
    => SortKeysOf(rows, onlyPuts.key)
         = Newest(onlyPuts.sortKeys, maxEntriesPerContract)

\* C4: the store holds at most one entry per (key, sort key); after a put
\* the pair holds exactly one entry, with the value of that put.
C4_UniqueReplace ==
  /\ \A r \in rows : \A q \in rows :
       (r.key = q.key /\ r.sort_key = q.sort_key) => r = q
  /\ LastPut =>
       LET found == {r \in rows : r.key = last.args[1]
                                   /\ r.sort_key = last.args[2]}
       IN /\ Cardinality(found) = 1
          /\ \A r \in found : StructEq(JSONparse(r.value), last.args[3])

\* A second put of a pair, with another value than the one stored.
C4_Witness == LastPut /\ last.prior = "changed"

\* The entry with the greatest sort key of a set of entries, or Null when
\* the set is empty.
GreatestEntry(S) ==
  IF S = {} THEN Null
  ELSE LET m == CHOOSE r \in S : \A q \in S : q.sort_key <= r.sort_key
       IN <<m.sort_key, JSONparse(m.value)>>

\* C5: getLast(K) returns the entry of K with the maximum sort key,
\* getLessOrEqual(K, s) the one with the maximum sort key <= s, getLess(K, s)
\* the one with the maximum sort key < s; each returns null, and no error,
\* when K has no such entry; the entries of other keys do not count.
C5_OrderedQueries ==
  /\ last.op = "getLast" =>
       /\ last.status = "ok"
       /\ last.res = GreatestEntry({r \in rows : r.key = last.args[1]})
  /\ last.op = "getLessOrEqual" =>
       /\ last.status = "ok"
       /\ last.res = GreatestEntry({r \in rows : /\ r.key = last.args[1]
                                                 /\ r.sort_key <= last.args[2]})
  /\ last.op = "getLess" =>
       /\ last.status = "ok"
       /\ last.res = GreatestEntry({r \in rows : /\ r.key = last.args[1]
                                                 /\ r.sort_key < last.args[2]})

\* getLess(K, s) where K holds an entry at s and one below it, and the other
\* key holds an entry between the two.
C5_Witness ==
  /\ last.op = "getLess"
  /\ last.args = <<"k1", 2>>
  /\ last.res # Null
  /\ last.res[1] = 0
  /\ SortKeysOf(rows, "k1") = {0, 2}
  /\ 1 \in SortKeysOf(rows, "k2")

\* C6: getLastSortKey returns the maximum sort key over all entries of all
\* keys, and null exactly when the store holds no entry (stated of the call
\* made in any state that calls on an empty store reach).
C6_LastSortKey ==
  LET res == getLastSortKeyResult(rows)
  IN /\ (res = Null) <=> (rows = {})
     /\ rows # {} =>
          /\ res # Null
          /\ \E r \in rows : r.sort_key = res[1]
          /\ \A r \in rows : r.sort_key <= res[1]

\* The rows a sweep that keeps the n newest entries of every key leaves.
KeepNewest(rs, n) ==
  {r \in rs :
     Cardinality({q \in rs : q.key = r.key /\ q.sort_key > r.sort_key}) < n}

Min(a, b) == IF a < b THEN a ELSE b

LastPrune == last.op = "prune" /\ last.status = "ok"

\* C7: after prune(S), S >= 1, a key that had c entries holds min(c, S), the
\* ones with its largest sort keys; entriesBefore and entriesAfter are the
\* numbers of entries before and after the call.
C7_Prune ==
  [][(LastPrune' /\ last'.args # <<>> /\ last'.args[1] >= 1) =>
       LET S == last'.args[1]
       IN /\ \A k \in Keys :
               /\ Cardinality(WhereKey(rows', k))
                    = Min(Cardinality(WhereKey(rows, k)), S)
               /\ WhereKey(rows', k) \subseteq WhereKey(rows, k)
               /\ SortKeysOf(rows', k) = Newest(SortKeysOf(rows, k), S)
          /\ last'.res[1] = Cardinality(rows)
          /\ last'.res[2] = Cardinality(rows')]_vars

\* prune(2) of a store whose keys held three entries each: entriesBefore is
\* K * 3, entriesAfter K * 2.
C7_Witness ==
  /\ LastPrune
  /\ last.args = <<2>>
  /\ last.res[1] = Cardinality(Keys) * 3
  /\ last.res[2] = Cardinality(Keys) * 2
  /\ \A k \in Keys : Cardinality(WhereKey(rows, k)) = 2

\* C8: a prune(S) issued directly after a prune(S) removes no entry, leaves
\* the entries as they are and reports entriesBefore = entriesAfter.
C8_PruneIdempotent ==
  /\ [](LastPrune /\ last.prior \in {"again", "afterRemoval"}
          => last.res[1] = last.res[2])
  /\ [][(LastPrune' /\ last'.prior \in {"again", "afterRemoval"})
          => rows' = rows]_vars

\* The second of two equal prunes, the first of which removed entries.
C8_Witness ==
  /\ LastPrune
  /\ last.prior = "afterRemoval"
  /\ \E k \in Keys : Cardinality(WhereKey(rows, k)) = EntriesStored(last.args)

\* C9: prune(0) and prune(-1) leave the store and return the PruneStats
\* that prune(1) does; prune() those that prune(5) does.
C9_PruneClamp ==
  [][LastPrune' =>
       LET As(n) == /\ rows' = KeepNewest(rows, n)
                    /\ last'.res = <<Cardinality(rows),
                                     Cardinality(KeepNewest(rows, n)), -1, -1>>
       IN /\ (last'.args # <<>> /\ last'.args[1] <= 0) => As(1)
          /\ last'.args = <<>> => As(5)]_vars

\* prune(-1) of a store whose keys held several entries each.
C9_Witness ==
  /\ LastPrune
  /\ last.args = <<-1>>
  /\ last.res[1] > 2 * Cardinality(Keys)
  /\ \A k \in Keys : Cardinality(WhereKey(rows, k)) = 1

\* prune() of a store with a key of more than five entries.
C9_DefaultReached ==
  /\ LastPrune
  /\ last.args = <<>>
  /\ last.res[1] > last.res[2]

\* C10: delete(K) removes every entry of K, so that get, getLast,
\* getLessOrEqual and getLess on K return null, and leaves the entries of
\* every other key as they are.
C10_Delete ==
  /\ []((last.op = "delete" /\ last.status = "ok") =>
          LET k == last.args[1]
          IN /\ WhereKey(rows, k) = {}
             /\ getLastResult(rows, k) = Null
             /\ \A s \in SortKeys :
                  /\ getResult(rows, k, s) = Null
                  /\ getLessOrEqualResult(rows, k, s) = Null
                  /\ getLessResult(rows, k, s) = Null)
  /\ [][(last'.op = "delete" /\ last'.status = "ok") =>
          \A k \in Keys \ {last'.args[1]} :
            WhereKey(rows', k) = WhereKey(rows, k)]_vars

\* delete(K) removed entries of K while the other key held an entry with a
\* hash and a signature.
C10_Witness ==
  /\ last.op = "delete"
  /\ last.prior = "removed"
  /\ \E r \in rows : r.state_hash \in Hashes /\ r.signature \in Signatures

\* C11: a setSignature(K, s, hash, signature) that returns changes only the
\* hash and the signature of the entry (K, s): that entry keeps its key, sort
\* key and value and carries the hash and signature given, every other row
\* is as it was, and when there is no entry (K, s) the call returns all the
\* same, creates no row and leaves the store as it was.
LastSetSignature == last.op = "setSignature" /\ last.status = "ok"

C11_SetSignature ==
  [][(last'.op = "setSignature" /\ last'.status = "ok") =>
       LET k == last'.args[1]
           s == last'.args[2]
           h == last'.args[3]
           sg == last'.args[4]
           entry == {r \in rows : r.key = k /\ r.sort_key = s}
       IN /\ {r \in rows' : ~(r.key = k /\ r.sort_key = s)} = rows \ entry
          /\ {r \in rows' : r.key = k /\ r.sort_key = s} =
               {Row(k, s, r.value, h, sg) : r \in entry}
          /\ entry = {} => rows' = rows]_vars

\* setSignature has just set the hash and signature of an entry of a key
\* that holds another entry too.
C11_Witness ==
  /\ LastSetSignature
  /\ \E r \in rows : /\ r.key = last.args[1] /\ r.sort_key = last.args[2]
                      /\ r.state_hash = last.args[3]
                      /\ r.signature = last.args[4]
  /\ \E r \in rows : r.key = last.args[1] /\ r.sort_key # last.args[2]

\* setSignature has just returned from a call on an entry that is not there.
C11_AbsentReached ==
  /\ LastSetSignature
  /\ rows # {}
  /\ \A r \in rows : ~(r.key = last.args[1] /\ r.sort_key = last.args[2])

\* C12: the writes between a begin and a rollback are undone: after the
\* rollback the entries are those at the time of the begin, which no call in
\* between changes the record of; after a commit the entries are those the
\* writes made, and a later rollback does not undo them.  A write outside
\* a transaction opens none.
Writes == {"put", "delete", "prune", "setSignature"}

C12_Transactions ==
  [][/\ (last'.op = "begin" /\ last'.status = "ok")
          => (tx = Null /\ tx' = <<rows>> /\ rows' = rows)
     /\ (last'.op = "rollback" /\ last'.status = "ok")
          => (tx # Null /\ rows' = tx[1] /\ tx' = Null)
     /\ (last'.op = "commit" /\ last'.status = "ok")
          => (tx # Null /\ rows' = rows /\ tx' = Null)
     /\ (last'.op \in {"begin", "rollback", "commit"} /\ last'.status = "error")
          => (rows' = rows /\ tx' = tx)
     /\ (last'.op \in {"rollback", "commit"} /\ tx = Null)
          => last'.status = "error"
     /\ last'.op \in Writes => tx' = tx]_vars

\* A rollback has just undone writes that had changed the entries.
C12_Witness ==
  /\ last.op = "rollback" /\ last.status = "ok" /\ last.prior = "undone"
  /\ rows # {}

\* A commit has just kept writes that had changed the entries.
C12_CommitReached ==
  last.op = "commit" /\ last.status = "ok" /\ last.prior = "kept"

\* A write outside a transaction has changed the entries.
C12_UnwrappedReached ==
  last.op \in Writes /\ last.status = "ok" /\ tx = Null /\ rows # {}

\* The calls that go through the db getter.
Accesses ==
  {"get", "getLast", "getLessOrEqual", "getLess", "getLastSortKey", "put",
   "delete", "prune", "setSignature", "begin", "commit", "rollback"}

\* C13, as claimed: once close has been called, the handle has been
\* released.
C13_ReleasedByClose == (last.op = "close") => (db = "closed")

\* C13, amended: the handle is created at most once, by the first call that
\* goes through the db getter and by nothing else (the constructor, open and
\* a close before any access create none); close releases the handle if one
\* was created and does nothing otherwise; a released handle stays released,
\* so the handle is released at most once, and exactly once when a close
\* follows its creation.
C13_HandleLifecycle ==
  /\ []((last.op = "new") => (db = "none"))
  /\ [][/\ (db # "none") => (db' # "none")
        /\ (db = "none" /\ last'.op \in Accesses) => db' = "open"
        /\ (db = "none" /\ last'.op \notin Accesses) => db' = "none"
        /\ (last'.op = "open") => db' = db
        /\ (db = "open" /\ last'.op = "close") => db' = "closed"
        /\ (db = "open" /\ last'.op # "close") => db' = "open"
        /\ (db = "closed") => db' = "closed"]_vars

\* A close of a handle that an earlier close released.
C13_Witness == last.op = "close" /\ last.prior = "again" /\ db = "closed"

\* C14: once close has released the handle, every later get, getLast,
\* getLessOrEqual, getLess, getLastSortKey, put, delete, prune,
\* setSignature, begin, commit and rollback throws: it returns no result,
\* creates no new handle and changes no row.
C14_FailAfterClose ==
  [][(db = "closed" /\ last'.op \in Accesses)
       => /\ last'.status = "error"
          /\ last'.res = Null
          /\ db' = "closed"
          /\ rows' = rows]_vars

\* A put on a closed handle has thrown, and the store holds entries.
C14_Witness ==
  /\ db = "closed"
  /\ last.op = "put" /\ last.status = "error"
  /\ rows # {}

\* C15: the constructor throws the configuration error exactly when it is
\* given no dbLocation and inMemory is not true; with inMemory true and no
\* dbLocation it returns.
C15_ConfigurationError ==
  (last.op = "constructor") =>
    (last.status = "error"
       <=> (NoDbLocation(last.args[1]) /\ last.args[1].inMemory # "true"))

\* C16: two values with the same fields and the same values, put with their
\* fields inserted in different orders, are stored as the same text.
C16_OrderIndependent ==
  \A r \in rows : \A q \in rows :
    StructEq(JSONparse(r.value), JSONparse(q.value)) => r.value = q.value

\* The rank of sort key s among the sort keys S, from 1 for the greatest.
Rank(S, s) == Cardinality({u \in S : u >= s})

\* C17: a put to key K that returns deletes exactly the entries of K whose
\* rank by sort key, descending from 1, exceeds maxEntriesPerContract, and
\* no other entry of K and no entry of another key.  The rank is taken
\* among the entries K held before the put, or among those and the entry
\* put: the statement is either of the two.
C17_EvictsBeyondCap ==
  [][(last'.op = "put" /\ last'.status = "ok") =>
       LET k == last'.args[1]
           s == last'.args[2]
           gone == {r \in rows : \A q \in rows' :
                      ~(q.key = r.key /\ q.sort_key = r.sort_key)}
           before == SortKeysOf(rows, k)
           after == before \cup {s}
       IN \/ gone = {r \in WhereKey(rows, k) :
                       Rank(before, r.sort_key) > maxEntriesPerContract}
          \/ gone = {r \in WhereKey(rows, k) :
                       Rank(after, r.sort_key) > maxEntriesPerContract}]_vars

\* C18: a put to a key K that holds maxEntriesPerContract entries leaves K
\* with exactly maxEntriesPerContract entries, whether its sort key is new
\* to K or is that of an entry K holds.
C18_FullKeyStaysFull ==
  [][(/\ last'.op = "put" /\ last'.status = "ok"
      /\ Cardinality(WhereKey(rows, last'.args[1])) = maxEntriesPerContract)
       => Cardinality(WhereKey(rows', last'.args[1]))
            = maxEntriesPerContract]_vars

\* C19: a put(K, s, v') that returns leaves the entry (K, s) with none of the
\* hashes and signatures setSignature gave it; every other entry is either
\* evicted by the put or kept with its hash and signature (and all else) as
\* they were.
C19_PutClearsSignature ==
  [][(last'.op = "put" /\ last'.status = "ok") =>
       LET k == last'.args[1]
           s == last'.args[2]
       IN /\ \A r \in rows' :
               (r.key = k /\ r.sort_key = s)
                 => (r.state_hash \notin Hashes /\ r.signature \notin Signatures)
          /\ \A r \in rows :
               ~(r.key = k /\ r.sort_key = s)
                 => \/ r \in rows'
                    \/ \A q \in rows' :
                         ~(q.key = r.key /\ q.sort_key = r.sort_key)]_vars

\* A put has just replaced an entry that carried a signature, and an entry
\* of another key still carries the hash and signature it was given.
C19_Witness ==
  /\ LastPut
  /\ last.prior = "signed"
  /\ \E r \in rows : /\ r.key # last.args[1]
                      /\ r.state_hash \in Hashes
                      /\ r.signature \in Signatures

\* C20: the entries change in one step only, the DELETE of a prune, which
\* takes every key from what it held to its entriesStored newest entries at
\* once; entriesBefore and entriesAfter are the numbers of entries just
\* before and just after that step.  A read changes nothing and returns
\* what the entries of the state it runs in give, so it sees the store
\* either as it was before the DELETE or as it is after, whenever it runs.
C20_PruneAtomic ==
  /\ [](pruning # Null => pruning[2] = Cardinality(rows))
  /\ [][/\ (rows' # rows) => (pruning # Null /\ LastPrune')
        /\ LastPrune' =>
             /\ pruning # Null
             /\ rows' = KeepNewest(rows, EntriesStored(pruning[1]))
             /\ last'.res[1] = Cardinality(rows)
             /\ last'.res[2] = Cardinality(rows')
        /\ (last'.op = "getLast")
             => (rows' = rows /\ last'.res = getLastResult(rows, last'.args[1]))
        /\ (last'.op = "getLess")
             => /\ rows' = rows
                /\ last'.res = getLessResult(rows, last'.args[1], last'.args[2])
        /\ (last'.op = "getLastSortKey")
             => (rows' = rows /\ last'.res = getLastSortKeyResult(rows))]_vars

\* A prune has returned after removing entries of both keys, and reads ran
\* between its two statements.
C20_Witness ==
  /\ LastPrune
  /\ last.prior = "afterRead"
  /\ last.res[1] >= last.res[2] + 2
  /\ \A k \in Keys : WhereKey(rows, k) # {}

\* C21: with maxEntriesPerContract >= 2, a put, a prune (with any
\* entriesStored) or a setSignature, whether it returns or throws, leaves
\* every key that held entries with entries and with a greatest sort key no
\* less than before: the entry getLast(K) returned is not removed.  A prune,
\* a setSignature, a put to another key and a put of a sort key older than
\* the greatest of K leave what getLast(K) returns as it was.
C21_NewestSurvives ==
  [][(maxEntriesPerContract >= 2 /\ last'.op \in {"put", "prune", "setSignature"})
       => \A k \in Keys :
            LET before == SortKeysOf(rows, k)
                after == SortKeysOf(rows', k)
            IN before # {} =>
                 /\ after # {}
                 /\ \A u \in before : \E w \in after : w >= u
                 /\ (\/ last'.op = "prune"
                     \/ (last'.op = "put" /\ last'.args[1] # k)
                     \/ (last'.op = "put" /\ \E u \in before : last'.args[2] < u))
                      => getLastResult(rows', k) = getLastResult(rows, k)]_vars

\* More sort keys than the cap, which is 2 or more, were put to a key; the
\* last put was of a sort key older than the greatest the key holds, and the
\* key is at the cap.
C21_Witness ==
  /\ LastPut
  /\ maxEntriesPerContract >= 2
  /\ onlyPuts.pure
  /\ Cardinality(onlyPuts.sortKeys) > maxEntriesPerContract
  /\ Cardinality(WhereKey(rows, last.args[1])) = maxEntriesPerContract
  /\ \E u \in SortKeysOf(rows, last.args[1]) : last.args[2] < u

\* A prune that keeps one entry a key has just removed entries, under a cap
\* of 2 or more.
C21_PruneReached ==
  /\ LastPrune
  /\ maxEntriesPerContract >= 2
  /\ last.res[1] > last.res[2]
  /\ rows # {}

=============================================================================
